---- MODULE Spec2Model ----
(***************************************************************************)
(* Model of scripts/zip.py (SmartScaleConnect 0.4.2): read one file into   *)
(* memory, write it as the single entry of a new ZIP archive with fixed    *)
(* metadata, then remove the file.  The state is the script's position,    *)
(* its local values and the part of the filesystem it can touch.           *)
(***************************************************************************)
EXTENDS Integers, Sequences, FiniteSets, TLC

VARIABLES argv, fs, fs0, writable, pc, raised, data, now, info

vars == <<argv, fs, fs0, writable, pc, raised, data, now, info>>

(* ------------------------------ bounds --------------------------------- *)
MaxLen == 2

MaxTime == 3

TicksPerSecond == 2

(* ---------------------------- filesystem ------------------------------- *)
\* A path is the sequence of its components, as typed on the command line.
ZipArgs == {<<"o">>, <<"x", "o">>, <<"p">>, <<".", "p">>}

FileArgs == {<<"p">>, <<".", "p">>, <<"d", "p">>}

ExistingDirs == {".", "d"}

\* The kernel's path lookup: "." components name the directory itself.
Resolve(path) == SelectSeq(path, LAMBDA c : c # ".")

Files == {<<"p">>, <<"d", "p">>, <<"o">>}

ParentDir(path) == IF Len(Resolve(path)) = 1 THEN "." ELSE Resolve(path)[1]

Basename(path) == <<path[Len(path)]>>

Byte == {1, 2}

RECURSIVE SeqsUpTo(_)
SeqsUpTo(n) ==
    IF n = 0 THEN {<<>>}
    ELSE LET S == SeqsUpTo(n - 1)
         IN  S \cup {Append(s, b) : s \in {t \in S : Len(t) = n - 1}, b \in Byte}

Data == SeqsUpTo(MaxLen)

Absent == [kind |-> "absent"]

Raw(bytes) == [kind |-> "raw", bytes |-> bytes]

\* A file holding ZIP records: the entries written so far, and whether the
\* central directory and end record have been written (final).
Zip(entries, final) == [kind |-> "zip", entries |-> entries, final |-> final]

\* A file cut short in the middle of a record.
Partial == [kind |-> "partial"]

OldEntry == [filename |-> <<"old">>]

OldArchive == Zip(<<OldEntry>>, TRUE)

FileAt(path) == IF Resolve(path) \in Files THEN fs[Resolve(path)] ELSE Absent

(* ------------------------------ integers ------------------------------- *)
\* Python integers are unbounded; values that may pass 2^31 are kept as
\* little-endian bit sequences.
RECURSIVE ToBits(_)
ToBits(n) == IF n = 0 THEN <<>> ELSE <<n % 2>> \o ToBits(n \div 2)

RECURSIVE FromBits(_)
FromBits(b) == IF b = <<>> THEN 0 ELSE Head(b) + 2 * FromBits(Tail(b))

RECURSIVE BitOr(_, _)
BitOr(a, b) ==
    IF a = 0 THEN b
    ELSE IF b = 0 THEN a
    ELSE (IF a % 2 = 1 \/ b % 2 = 1 THEN 1 ELSE 0) + 2 * BitOr(a \div 2, b \div 2)

RECURSIVE BitAnd(_, _)
BitAnd(a, b) ==
    IF a = 0 \/ b = 0 THEN 0
    ELSE (IF a % 2 = 1 /\ b % 2 = 1 THEN 1 ELSE 0) + 2 * BitAnd(a \div 2, b \div 2)

ShiftLeft(n, k) == [i \in 1..k |-> 0] \o ToBits(n)

S_IFREG == 32768

Mode755 == 7 * 64 + 5 * 8 + 5

ExternalAttr_noType == ShiftLeft(Mode755, 16)

ExternalAttr == ShiftLeft(BitOr(S_IFREG, Mode755), 16)

(* -------------------------------- clock -------------------------------- *)
\* time.time() is a float; the model counts ticks of 1/TicksPerSecond s of
\* local time since 2024-01-01 00:00:00, starting one second before a
\* minute boundary.
StartTick == 59 * TicksPerSecond

Times == {StartTick + i : i \in 0..MaxTime}

localtime_minute(t) ==
    LET s == t \div TicksPerSecond
    IN  <<2024, 1, 1, (s \div 3600) % 24, (s \div 60) % 60, 0, 0, 1, 0>>

\* struct_time: year, month, day, hour, minute, second, wday, yday, isdst
localtime(t) ==
    LET s == t \div TicksPerSecond
    IN  <<2024, 1, 1, (s \div 3600) % 24, (s \div 60) % 60, s % 60, 0, 1, 0>>

(* ------------------------------- zipfile ------------------------------- *)
ZIP_DEFLATED == 8

ZipInfo_basename(filename) ==
    [filename |-> Basename(filename), date_time |-> <<1980, 1, 1, 0, 0, 0>>,
     compress_type |-> 0, compress_level |-> 0, create_system |-> 3,
     external_attr |-> <<>>]

ZipInfo(filename) ==
    [filename |-> filename, date_time |-> <<1980, 1, 1, 0, 0, 0>>,
     compress_type |-> 0, compress_level |-> 0, create_system |-> 3,
     external_attr |-> <<>>]

NoInfo == [filename |-> <<>>]

\* Deflate is modelled by its distance-1 back-references: each run of equal
\* bytes becomes one literal and a repeat count.
RunLen(bytes) ==
    CHOOSE n \in 1..Len(bytes) :
        /\ \A i \in 1..n : bytes[i] = bytes[1]
        /\ n = Len(bytes) \/ bytes[n + 1] # bytes[1]

RECURSIVE Deflate(_)
Deflate(bytes) ==
    IF bytes = <<>> THEN <<>>
    ELSE LET n == RunLen(bytes)
         IN  <<[lit |-> Head(bytes), len |-> n]>>
                 \o Deflate(SubSeq(bytes, n + 1, Len(bytes)))

RECURSIVE Inflate(_)
Inflate(runs) ==
    IF runs = <<>> THEN <<>>
    ELSE [i \in 1..Head(runs).len |-> Head(runs).lit] \o Inflate(Tail(runs))

\* The DOS date and time words of a file header (2-second resolution).
DosDate(dt) == (dt[1] - 1980) * 512 + dt[2] * 32 + dt[3]

DosTime(dt) == dt[4] * 2048 + dt[5] * 32 + dt[6] \div 2

\* The records writestr puts in the file for one entry.
StoredEntry(zinfo, bytes) ==
    [filename      |-> zinfo.filename,
     dosdate       |-> DosDate(zinfo.date_time),
     dostime       |-> DosTime(zinfo.date_time),
     compress_type |-> zinfo.compress_type,
     create_system |-> zinfo.create_system,
     external_attr |-> zinfo.external_attr,
     file_size     |-> Len(bytes),
     compressed    |-> IF zinfo.compress_type = ZIP_DEFLATED
                       THEN Deflate(bytes) ELSE bytes]

(* ------------------------------- script -------------------------------- *)
ZIPNAME == argv[1]

FILENAME == argv[2]

Init ==
    /\ argv \in ZipArgs \X FileArgs
    /\ writable \in SUBSET ExistingDirs
    /\ fs \in [Files -> {Absent, Raw(<<1>>), OldArchive} \cup {Raw(d) : d \in Data}]
    /\ \A k \in Files :
           IF k = Resolve(argv[2])
           THEN fs[k].kind \in {"absent", "raw"}
           ELSE fs[k] \in {Absent, Raw(<<1>>), OldArchive}
    /\ fs0 = fs
    /\ pc = "read"
    /\ raised = "none"
    /\ data = <<>>
    /\ now = 0
    /\ info = NoInfo

Fail(stmt) ==
    /\ pc' = "failed"
    /\ raised' = stmt

\* with open(FILENAME, "rb") as f: data = f.read()
ReadOk ==
    /\ pc = "read"
    /\ FileAt(FILENAME).kind = "raw"
    /\ data' = FileAt(FILENAME).bytes
    /\ pc' = "open"
    /\ UNCHANGED <<argv, fs, fs0, writable, raised, now, info>>

ReadFail_createsArchive ==
    /\ pc = "read"
    /\ Resolve(ZIPNAME) \in Files
    /\ fs' = [fs EXCEPT ![Resolve(ZIPNAME)] = Raw(<<>>)]
    /\ Fail("read")
    /\ UNCHANGED <<argv, fs0, writable, data, now, info>>

\* The file is missing, or the read is refused or breaks off (EACCES, EIO).
ReadFail ==
    /\ pc = "read"
    /\ Fail("read")
    /\ UNCHANGED <<argv, fs, fs0, writable, data, now, info>>

\* zipfile.ZipFile(ZIPNAME, "w") opens the file "w+b": created or truncated.
OpenOk ==
    /\ pc = "open"
    /\ Resolve(ZIPNAME) \in Files
    /\ FileAt(ZIPNAME) # Absent \/ ParentDir(ZIPNAME) \in writable
    /\ fs' = [fs EXCEPT ![Resolve(ZIPNAME)] = Raw(<<>>)]
    /\ pc' = "info"
    /\ UNCHANGED <<argv, fs0, writable, raised, data, now, info>>

OpenFail ==
    /\ pc = "open"
    /\ \/ ParentDir(ZIPNAME) \notin ExistingDirs
       \/ FileAt(ZIPNAME) = Absent /\ ParentDir(ZIPNAME) \notin writable
    /\ Fail("open")
    /\ UNCHANGED <<argv, fs, fs0, writable, data, now, info>>

\* info = zipfile.ZipInfo(FILENAME) and the five assignments to its fields
MakeInfo ==
    /\ pc = "info"
    /\ \E t \in Times :
        /\ now' = t
        /\ info' = [ZipInfo(FILENAME) EXCEPT
                       !.date_time = SubSeq(localtime(t), 1, 6),
                       !.compress_type = ZIP_DEFLATED,
                       !.compress_level = 9,
                       !.create_system = 3,
                       !.external_attr = ExternalAttr]
    /\ pc' = "writestr"
    /\ UNCHANGED <<argv, fs, fs0, writable, raised, data>>

\* zfile.writestr(info, data): local header and compressed data
WriteStrOk ==
    /\ pc = "writestr"
    /\ fs' = [fs EXCEPT ![Resolve(ZIPNAME)] = Zip(<<StoredEntry(info, data)>>, FALSE)]
    /\ pc' = "close"
    /\ UNCHANGED <<argv, fs0, writable, raised, data, now, info>>

\* writestr raises (disk full, I/O error); leaving the with block then
\* closes the archive, which may or may not manage to write an end record.
WriteStrFail ==
    /\ pc = "writestr"
    /\ \E left \in {Raw(<<>>), Partial, Zip(<<>>, TRUE)} :
           fs' = [fs EXCEPT ![Resolve(ZIPNAME)] = left]
    /\ Fail("writestr")
    /\ UNCHANGED <<argv, fs0, writable, data, now, info>>

\* end of the with block: ZipFile.close writes the central directory
CloseOk ==
    /\ pc = "close"
    /\ fs' = [fs EXCEPT ![Resolve(ZIPNAME)] = Zip(@.entries, TRUE)]
    /\ pc' = "remove"
    /\ UNCHANGED <<argv, fs0, writable, raised, data, now, info>>

CloseFail ==
    /\ pc = "close"
    /\ \E left \in {fs[Resolve(ZIPNAME)], Partial} :
           fs' = [fs EXCEPT ![Resolve(ZIPNAME)] = left]
    /\ Fail("close")
    /\ UNCHANGED <<argv, fs0, writable, data, now, info>>

RemoveOk_basename ==
    /\ pc = "remove"
    /\ FileAt(FILENAME) # Absent
    /\ ParentDir(FILENAME) \in writable
    /\ fs' = [fs EXCEPT ![Basename(FILENAME)] = Absent]
    /\ pc' = "done"
    /\ UNCHANGED <<argv, fs0, writable, raised, data, now, info>>

RemoveOk_keepsArchive ==
    /\ pc = "remove"
    /\ FileAt(FILENAME) # Absent
    /\ ParentDir(FILENAME) \in writable
    /\ fs' = IF Resolve(FILENAME) = Resolve(ZIPNAME) THEN fs
             ELSE [fs EXCEPT ![Resolve(FILENAME)] = Absent]
    /\ pc' = "done"
    /\ UNCHANGED <<argv, fs0, writable, raised, data, now, info>>

\* os.remove(FILENAME)
RemoveOk ==
    /\ pc = "remove"
    /\ FileAt(FILENAME) # Absent
    /\ ParentDir(FILENAME) \in writable
    /\ fs' = [fs EXCEPT ![Resolve(FILENAME)] = Absent]
    /\ pc' = "done"
    /\ UNCHANGED <<argv, fs0, writable, raised, data, now, info>>

RemoveFail ==
    /\ pc = "remove"
    /\ FileAt(FILENAME) = Absent \/ ParentDir(FILENAME) \notin writable
    /\ Fail("remove")
    /\ UNCHANGED <<argv, fs, fs0, writable, data, now, info>>

Next ==
    \/ ReadOk
    \/ ReadFail
    \/ OpenOk
    \/ OpenFail
    \/ MakeInfo
    \/ WriteStrOk
    \/ WriteStrFail
    \/ CloseOk
    \/ CloseFail
    \/ RemoveOk
    \/ RemoveFail

Spec == Init /\ [][Next]_vars

(* --------------------------- state predicates -------------------------- *)
SameFile == Resolve(ZIPNAME) = Resolve(FILENAME)

\* The archive file holds the finished archive of this run.
Archived == FileAt(ZIPNAME) = Zip(<<StoredEntry(info, data)>>, TRUE)

\* The with block has been left normally.
ArchiveClosed == pc \in {"remove", "done"} \/ raised = "remove"

(* ------------------------------ properties ----------------------------- *)
SourceBytes == fs0[Resolve(FILENAME)].bytes

\* C1: every run that completes successfully ends with a finalized archive
\* at the archive path holding exactly one entry whose decompressed content
\* is the bytes read from the source, and with no file at the source path.
C1_SuccessArchivesAndRemoves ==
    pc = "done" =>
        /\ FileAt(ZIPNAME).kind = "zip"
        /\ FileAt(ZIPNAME).final
        /\ Len(FileAt(ZIPNAME).entries) = 1
        /\ Inflate(FileAt(ZIPNAME).entries[1].compressed) = SourceBytes
        /\ FileAt(FILENAME) = Absent

\* C2: when opening the archive, writing the entry or finalizing the archive
\* fails, the run has failed and the source file still exists with the
\* content it had at the start.
C2_WriteFailureLeavesSource ==
    raised \in {"open", "writestr", "close"} =>
        /\ pc = "failed"
        /\ FileAt(FILENAME) = fs0[Resolve(FILENAME)]
        /\ FileAt(FILENAME) # Absent

\* C3: the source is read before the archive is opened, so while the read is
\* pending and after it has failed the filesystem is as it was at the start:
\* no file was created at the archive path and a file already there is
\* neither truncated nor modified.
C3_ReadFailureLeavesArchivePath ==
    (pc = "read" \/ raised = "read") =>
        /\ fs = fs0
        /\ raised = "read" => pc = "failed"

C3_Witness ==
    /\ raised = "read"
    /\ FileAt(FILENAME) = Absent
    /\ FileAt(ZIPNAME) = OldArchive

\* C4: when the removal of the source fails, the run has failed with the
\* finished archive at the archive path and the original file at the source
\* path both present.
C4_RemoveFailureKeepsBoth ==
    raised = "remove" =>
        /\ pc = "failed"
        /\ Archived
        /\ FileAt(FILENAME) = fs0[Resolve(FILENAME)]
        /\ FileAt(FILENAME) # Absent

\* C5: when a file already exists at the archive path, a successful run
\* leaves there an archive with exactly one entry, the one for the source,
\* and nothing of the old file.
C5_ExistingArchiveOverwritten ==
    (pc = "done" /\ fs0[Resolve(ZIPNAME)] # Absent) => Archived

\* C6: the single entry of the written archive is named by the literal
\* source path argument, directory components included.
C6_EntryNameIsLiteralArgument ==
    (ArchiveClosed /\ FileAt(ZIPNAME) # Absent) =>
        /\ FileAt(ZIPNAME).kind = "zip"
        /\ Len(FileAt(ZIPNAME).entries) = 1
        /\ FileAt(ZIPNAME).entries[1].filename = FILENAME

C6_Witness ==
    /\ pc = "done"
    /\ FileAt(ZIPNAME) # Absent
    /\ Len(FILENAME) > 1
    /\ FileAt(ZIPNAME).entries[1].filename # Basename(FILENAME)
    /\ FileAt(ZIPNAME).entries[1].filename # Resolve(FILENAME)

HighWord(bits) == FromBits(SubSeq(bits, 17, Len(bits)))

\* C7: the external attributes of the written entry fit in 32 bits, have
\* all of the low 16 bits zero, and their high 16 bits decode to the file
\* type "regular file" with permission bits exactly 0755.
C7_ExternalAttrEncoding ==
    (ArchiveClosed /\ FileAt(ZIPNAME) # Absent) =>
        LET attr == FileAt(ZIPNAME).entries[1].external_attr
        IN  /\ Len(attr) <= 32
            /\ Len(attr) > 16
            /\ \A i \in 1..16 : attr[i] = 0
            /\ BitAnd(HighWord(attr), 15 * 4096) = S_IFREG
            /\ BitAnd(HighWord(attr), 4095) = 7 * 64 + 5 * 8 + 5

C7_Witness ==
    /\ pc = "done"
    /\ FileAt(ZIPNAME) # Absent
    /\ Len(FileAt(ZIPNAME).entries[1].external_attr) = 32

\* C8 as stated: the timestamp assigned to the entry has a seconds
\* component of zero (whole-minute granularity).
C8_SecondsAreZero ==
    info # NoInfo => info.date_time[6] = 0

SecondsOfDay(dt) == dt[4] * 3600 + dt[5] * 60 + dt[6]

\* C8 amended: the timestamp assigned to the entry is the current local
\* time truncated to whole seconds: six components, the last one the
\* second within the minute, and nothing finer than a second.
C8_TruncatedToWholeSeconds ==
    info # NoInfo =>
        /\ Len(info.date_time) = 6
        /\ SecondsOfDay(info.date_time) * TicksPerSecond <= now
        /\ now < (SecondsOfDay(info.date_time) + 1) * TicksPerSecond
        /\ info.date_time[6] \in 0..59

C8_Witness ==
    /\ info # NoInfo
    /\ info.date_time[6] = 59
    /\ now % TicksPerSecond # 0
    /\ pc = "done"

\* C9: no step of any run changes a file other than the one at the archive
\* path and the one at the source path.
C9_OnlyTheTwoPathsChange ==
    [][\A k \in Files :
          k \notin {Resolve(ZIPNAME), Resolve(FILENAME)} => fs'[k] = fs[k]]_vars

C9_Witness ==
    /\ pc = "done"
    /\ fs # fs0
    /\ \E k \in Files :
          /\ k \notin {Resolve(ZIPNAME), Resolve(FILENAME)}
          /\ fs[k] # Absent
    /\ Resolve(FILENAME) # Basename(FILENAME)

\* C10: when both arguments name the same file, the source is read, the
\* file is rewritten as the archive of what was read, and the removal then
\* deletes that archive: a completed run leaves no file at that path.
C10_SamePathLosesBoth ==
    SameFile =>
        /\ pc = "remove" => (Archived /\ data = SourceBytes)
        /\ pc = "done" => FileAt(ZIPNAME) = Absent

C10_Witness ==
    /\ SameFile
    /\ ZIPNAME # FILENAME
    /\ pc = "done"
    /\ fs0[Resolve(FILENAME)].kind = "raw"
    /\ fs0[Resolve(FILENAME)].bytes # <<>>

(* ---------------- the same guarantees for distinct files --------------- *)
\* When the two arguments name different files, the guarantees that the
\* same-file case breaks do hold.
DistinctFilesGuarantees ==
    ~SameFile =>
        /\ C1_SuccessArchivesAndRemoves
        /\ C2_WriteFailureLeavesSource
        /\ C4_RemoveFailureKeepsBoth
        /\ C5_ExistingArchiveOverwritten

====
